---- MODULE Spec2Model ----
(***************************************************************************)
(* http-mongodb: the request pipeline registered by runtime() in           *)
(* src/index.js.  One HTTP request is a small process: the synchronous     *)
(* part of each Express handler is one atomic step, and the handler        *)
(* suspends at its awaits (MongoClient.connect, the driver action,         *)
(* cursor.toArray).  The 10 s timer armed by the first middleware races    *)
(* those steps.                                                            *)
(***************************************************************************)
EXTENDS Integers, Sequences, FiniteSets, TLC

\* ---------------------------------------------------------------- bounds
MaxReqs == 2        \* request slots of the model
MaxPathLen == 3     \* longest URL path, in segments

Reqs == 1..MaxReqs

\* ---------------------------------------------------------------- inputs
Methods == {"POST", "GET", "DELETE"}

\* names appearing in URL segments; "a$b" is refused by the driver as a
\* database or collection name
Names == {"users", "a$b"}

\* a URL segment: m = it begins with the marker "_", n = the rest of it
Segs == [m : BOOLEAN, n : Names]
NoSeg == [m |-> FALSE, n |-> ""]

RECURSIVE PathsOfLen(_)
PathsOfLen(k) ==
  IF k = 0 THEN {<<>>}
  ELSE {Append(p, s) : p \in PathsOfLen(k - 1), s \in Segs}

Paths == UNION {PathsOfLen(k) : k \in 0..MaxPathLen}

\* what the client put in the request body
BodyKinds == {"array", "arrayOfOne", "object", "absent", "malformed"}

\* ----------------------------------------------------------------- state
VARIABLES
  boot,        \* where start() stands: reading the configuration file,
               \* connecting, writing the default file, serving, stopped
  retry,       \* the `retry` argument of the running start()
  bootlog,     \* what happened during startup
  live,        \* request slots that may still receive a request
  pc,          \* where each request's handler chain stands
  method,      \* req.method
  path,        \* req.path, as its segments
  slash,       \* whether req.path ends in "/"
  body,        \* req.body after express.json()
  timer,       \* the setTimeout of the first middleware
  sent,        \* the responses written to the client, in order
  client,      \* res.locals.client
  database,    \* res.locals.database
  collection,  \* res.locals.collection
  calls,       \* the driver actions invoked for the request, in order
  tried,       \* the routes Express tested for the request, in order
  ran,         \* the pipeline stages that ran for the request
  unhandled,   \* whether a handler of the request rejected outside a try
  authorization, \* the local `authorization` read by req.get (line 69)
  auth,        \* the credential handed to MongoClient.connect
  opened,      \* number of connections the gateway has opened
  closed       \* connections closed since (by a client-level close action)

vars == <<boot, retry, bootlog, live, pc, method, path, slash, body, timer, sent, client, database,
          collection, calls, tried, ran, unhandled, authorization, auth,
          opened, closed>>

\* ------------------------------------------------------- driver handles
\* a client, database or collection object of the driver
Handle(level, conn, db, coll) ==
  [level |-> level, conn |-> conn, db |-> db, coll |-> coll]
NoHandle == Handle(-1, 0, NoSeg, NoSeg)

\* MongoClient.connect resolves to a fresh client on connection number c
NewClient(c) == Handle(0, c, NoSeg, NoSeg)
\* client.db(db_name)
DbOf(cl, seg) == Handle(1, cl.conn, seg, NoSeg)
\* database.collection(collection_name)
CollectionOf(db, seg) == Handle(2, db.conn, db.db, seg)

\* the driver validates database and collection names and throws on a
\* name it refuses
DriverRefusesName(seg) == seg.n = "a$b"


\* ------------------------------------------------------------ responses
\* what the client receives: the HTTP status and the JSON body.  An error
\* envelope is {error: {reason, ...context, status}}; a result body is the
\* normalized action result; the body parser's own failure is answered by
\* Express' default error handler, not by an envelope.
Response(status, kind, reason, envStatus, action, meth, payload) ==
  [status |-> status, kind |-> kind, reason |-> reason,
   envStatus |-> envStatus, action |-> action, method |-> meth,
   payload |-> payload]

\* error(reason, context, status, response): the envelope and the status
\* are built from the same `status` argument
Envelope(reason, status, action, meth) ==
  Response(status, "envelope", reason, status, action, meth, "-")

ResultBody(payload) == Response(200, "result", "-", 0, "-", "-", payload)

ParseErrorResponse == Response(400, "parseError", "-", 0, "-", "-", "-")

\* res.headersSent
HeadersSent(out) == out # <<>>

\* response.status(..); response.json(..): the first call writes the
\* response; on a response whose headers were sent it throws
\* (ERR_HTTP_HEADERS_SENT) and writes nothing
\* (WriteAlways: a write that ignores headersSent)
WriteAlways(out, resp) == Append(out, resp)
Write(out, resp) == IF HeadersSent(out) THEN out ELSE <<resp>>
WriteThrows(out) == HeadersSent(out)

\* req.method.toLowerCase()
ToLowerCase(m) ==
  CASE m = "POST" -> "post"
    [] m = "GET" -> "get"
    [] m = "DELETE" -> "delete"
    [] OTHER -> m

\* --------------------------------------------------------------- routes
\* the route table in registration order (app.all / app.post calls)
Routes == <<
  [verb |-> "all",  shape |-> "star",    level |-> 0, handler |-> "armTimer"],
  [verb |-> "post", shape |-> "star",    level |-> 0, handler |-> "connect"],
  [verb |-> "post", shape |-> "action",  level |-> 0, handler |-> "action"],
  [verb |-> "post", shape |-> "descend", level |-> 1, handler |-> "descendDb"],
  [verb |-> "post", shape |-> "action",  level |-> 1, handler |-> "action"],
  [verb |-> "post", shape |-> "descend", level |-> 2, handler |-> "descendColl"],
  [verb |-> "post", shape |-> "action",  level |-> 2, handler |-> "action"],
  [verb |-> "post", shape |-> "star",    level |-> 0, handler |-> "fallback"],
  [verb |-> "all",  shape |-> "star",    level |-> 0, handler |-> "notAllowed"] >>

\* Express' path patterns (non-strict, so a trailing "/" is optional):
\*   "*", "/*"                     any path
\*   "/_:action/" and deeper       exactly level+1 segments, the last one
\*                                 beginning with "_"
\*   "/:db_name/*" and deeper      level named segments followed by "/"
PathMatches(rt, p, s) ==
  CASE rt.shape = "star"    -> TRUE
    [] rt.shape = "action"  -> Len(p) = rt.level + 1 /\ p[rt.level + 1].m
    [] rt.shape = "descend" -> Len(p) > rt.level \/ (Len(p) = rt.level /\ s)

VerbMatches(rt, m) == rt.verb = "all" \/ (rt.verb = "post" /\ m = "POST")

Matches(i, m, p, s) ==
  VerbMatches(Routes[i], m) /\ PathMatches(Routes[i], p, s)

\* Express walks the table from route i: a route that does not match is
\* skipped, a matching one runs its handler.  The three middlewares that
\* call next() synchronously (timer, db descent, collection descent) are
\* folded into the walk; the walk stops at the first other handler, or
\* where a descent throws.  cx is the request's context so far.
RECURSIVE Run(_, _, _, _, _)
Run(i, m, p, s, cx) ==
  IF i > Len(Routes) THEN [cx EXCEPT !.stop = "unrouted"]
  ELSE
    LET c1 == [cx EXCEPT !.tried = Append(@, i)]
        h  == Routes[i].handler
    IN IF ~Matches(i, m, p, s) THEN Run(i + 1, m, p, s, c1)
       ELSE CASE h = "armTimer" ->
                   Run(i + 1, m, p, s,
                       [c1 EXCEPT !.timer = "armed",
                                  !.ran = @ \cup {"timer"}])
              [] h = "descendDb" ->
                   IF DriverRefusesName(p[1])
                   THEN [c1 EXCEPT !.ran = @ \cup {"resolveDb"},
                                   !.stop = "threw", !.at = i]
                   ELSE Run(i + 1, m, p, s,
                            [c1 EXCEPT !.database = DbOf(cx.client, p[1]),
                                       !.ran = @ \cup {"resolveDb"}])
              [] h = "descendColl" ->
                   IF DriverRefusesName(p[2])
                   THEN [c1 EXCEPT !.ran = @ \cup {"resolveColl"},
                                   !.stop = "threw", !.at = i]
                   ELSE Run(i + 1, m, p, s,
                            [c1 EXCEPT
                               !.collection = CollectionOf(cx.database, p[2]),
                               !.ran = @ \cup {"resolveColl"}])
              [] OTHER -> [c1 EXCEPT !.stop = h, !.at = i]

\* the context of request r as the walk reads and writes it: req and
\* res.locals belong to the request
\* (ContextShared: the three references kept in one place for all requests)
ContextShared(r) ==
  [tried |-> tried[r], timer |-> timer[r], ran |-> ran[r],
   client |-> client[1], database |-> database[1],
   collection |-> collection[1], stop |-> "", at |-> 0]
Context(r) ==
  [tried |-> tried[r], timer |-> timer[r], ran |-> ran[r],
   client |-> client[r], database |-> database[r],
   collection |-> collection[r], stop |-> "", at |-> 0]


\* ------------------------------------------------------- auth extractor
\* text is a sequence of characters; the characters of the model
Chars == {"u", "p", ":"}

\* the byte of a character and the character of a byte (UTF-8, ASCII range)
CharCode(c) ==
  CASE c = "u" -> 117
    [] c = "p" -> 112
    [] c = ":" -> 58
CodeChar(b) ==
  CASE b = 117 -> "u"
    [] b = 112 -> "p"
    [] b = 58 -> ":"
    [] OTHER -> "?"

\* base64 text is a sequence of 6-bit digits, 64 standing for the pad "="
RECURSIVE Base64Encode(_)
Base64Encode(bs) ==
  IF Len(bs) = 0 THEN <<>>
  ELSE IF Len(bs) = 1 THEN
    LET n == bs[1] * 65536
    IN <<n \div 262144, (n \div 4096) % 64, 64, 64>>
  ELSE IF Len(bs) = 2 THEN
    LET n == bs[1] * 65536 + bs[2] * 256
    IN <<n \div 262144, (n \div 4096) % 64, (n \div 64) % 64, 64>>
  ELSE
    LET n == bs[1] * 65536 + bs[2] * 256 + bs[3]
    IN <<n \div 262144, (n \div 4096) % 64, (n \div 64) % 64, n % 64>>
         \o Base64Encode(SubSeq(bs, 4, Len(bs)))

\* Buffer.from(text, "base64"): the bytes of the digits before the pad
RECURSIVE Base64Digits(_)
Base64Digits(ds) ==
  IF Len(ds) <= 1 THEN <<>>
  ELSE IF Len(ds) = 2 THEN <<(ds[1] * 64 + ds[2]) \div 16>>
  ELSE IF Len(ds) = 3 THEN
    LET n == ds[1] * 4096 + ds[2] * 64 + ds[3]
    IN <<n \div 1024, (n \div 4) % 256>>
  ELSE
    LET n == ds[1] * 262144 + ds[2] * 4096 + ds[3] * 64 + ds[4]
    IN <<n \div 65536, (n \div 256) % 256, n % 256>>
         \o Base64Digits(SubSeq(ds, 5, Len(ds)))

Base64Decode(ds) == Base64Digits(SelectSeq(ds, LAMBDA d : d < 64))

\* the Authorization header a client sends for user and password:
\* "Basic " (the token -1) followed by base64(user + ":" + password)
HeaderOf(user, password) ==
  LET text == user \o <<":">> \o password
  IN <<-1>> \o Base64Encode([i \in 1..Len(text) |-> CharCode(text[i])])

\* authorization.split("Basic ").join("")
StripBasic(h) == SelectSeq(h, LAMBDA d : d # -1)

\* String.prototype.split(":")
RECURSIVE Split(_)
Split(text) ==
  IF \E i \in 1..Len(text) : text[i] = ":"
  THEN LET i == CHOOSE j \in 1..Len(text) :
                  text[j] = ":" /\ \A k \in 1..(j - 1) : text[k] # ":"
       IN <<SubSeq(text, 1, i - 1)>> \o Split(SubSeq(text, i + 1, Len(text)))
  ELSE <<text>>

\* Array.prototype.join(sep)
RECURSIVE Join(_, _)
Join(parts, sep) ==
  IF Len(parts) = 0 THEN <<>>
  ELSE IF Len(parts) = 1 THEN parts[1]
  ELSE parts[1] \o sep \o Join(Tail(parts), sep)

Credential(user, password) ==
  [set |-> TRUE, user |-> user, password |-> password]
NoAuth == [set |-> FALSE, user |-> <<>>, password |-> <<>>]

\* lines 68-79: auth stays null without a header; otherwise the header is
\* stripped, decoded, split on ":", the first part is the user and the
\* remaining parts joined with "" are the password
ExtractAuth(h) ==
  IF h = <<>> THEN NoAuth
  ELSE LET bytes == Base64Decode(StripBasic(h))
           text  == [i \in 1..Len(bytes) |-> CodeChar(bytes[i])]
           parts == Split(text)
       IN Credential(Head(parts), Join(Tail(parts), <<>>))

\* users and passwords of the requests of the model
Users == {<<"u">>}
Passwords == {<<"p">>, <<"p", ":", "p">>}

\* what req.get("authorization") returns for the requests of the model
Headers == {<<>>} \cup {HeaderOf(u, pw) : u \in Users, pw \in Passwords}

\* ------------------------------------------------------------- handlers
\* the object the action is looked up on: client[action], database[action]
\* or collection[action], by the level of the action route that matched
\* (TargetClientOnly: every action route looking the action up on client)
TargetClientOnly(level, cx) == cx.client
Target(level, cx) ==
  CASE level = 0 -> cx.client
    [] level = 1 -> cx.database
    [] level = 2 -> cx.collection

\* raw results a driver action can resolve to; "Cursor" is the class the
\* normalizer tests for, "AggregationCursor" stands for the driver's other
\* cursor classes, "null" for null/undefined
ResultKinds == {"document", "scalar", "null", "Cursor", "AggregationCursor"}

\* results that offer toArray()
OffersToArray(k) == k \in {"Cursor", "AggregationCursor"}

\* parse(): object.constructor.name === "Cursor"
IsCursor(k) == k = "Cursor"

\* parse() throws a TypeError reading .constructor of null/undefined
ParseThrows(k) == k = "null"

\* fclone(object) of a result that was not materialized
Cloned(k) ==
  CASE k = "document" -> "document"
    [] k = "scalar" -> "scalar"
    [] OTHER -> "cursorHandle"

\* ------------------------------------------------------ driver actions
\* the path /_close/: the client-level action that closes the connection
ClosePath == <<[m |-> TRUE, n |-> "close"]>>

\* actions the model knows to exist on a target: MongoClient.close
DriverHas(lvl, act) == lvl = 0 /\ act = "close"

\* an invocation that releases the connection it is made on
\* (ReleasesAlways: every action closing the client it ran on)
ReleasesAlways(call) == TRUE
Releases(call) == DriverHas(call.target.level, call.action)

\* what an invoked action can resolve to: close() resolves to undefined
ResultsOf(call) == IF Releases(call) THEN {"null"} ELSE ResultKinds

\* messages a failed MongoClient.connect can carry: without "MongoError",
\* with "[MongoError: ...", and with "MongoError" but no "[MongoError: "
ConnectErrors == {"plain", "bracketed", "bare"}

\* line 86: message.split("[MongoError: ")[1].split(..) throws a
\* TypeError when the message holds "MongoError" without that prefix
NormalizeThrows(msg) == msg = "bare"

\* express.json(): the decoded req.body for each kind of request body.  A
\* request without a JSON body leaves req.body undefined or {} depending
\* on the body parser's version.
Decoded(b) ==
  CASE b = "array" -> {"array"}
    [] b = "arrayOfOne" -> {"arrayOfOne"}
    [] b = "object" -> {"object"}
    [] b = "absent" -> {"object", "undefined"}
    [] OTHER -> {}

\* line 62: req.body && !Array.isArray(req.body)
\* (BodyNeverRejected: the check left out)
BodyNeverRejected(rb) == FALSE
BodyRejected(rb) == rb = "object"

\* writes the request's variables at the end of a step
Commit(r, cx, newpc, out, cls, unh) ==
  /\ pc' = [pc EXCEPT ![r] = newpc]
  /\ timer' = [timer EXCEPT ![r] = cx.timer]
  /\ sent' = [sent EXCEPT ![r] = out]
  /\ client' = [client EXCEPT ![r] = cx.client]
  /\ database' = [database EXCEPT ![r] = cx.database]
  /\ collection' = [collection EXCEPT ![r] = cx.collection]
  /\ calls' = [calls EXCEPT ![r] = cls]
  /\ tried' = [tried EXCEPT ![r] = cx.tried]
  /\ ran' = [ran EXCEPT ![r] = cx.ran]
  /\ unhandled' = [unhandled EXCEPT ![r] = unh]

\* `return await error(.., res)` ending a handler: the envelope is written,
\* or response.json throws and the async handler rejects with nobody
\* catching it
Reply(r, cx, resp) ==
  Commit(r, cx, "ended", Write(sent[r], resp), calls[r],
         unhandled[r] \/ WriteThrows(sent[r]))

\* the handler returns without writing
Return(r, cx) == Commit(r, cx, "ended", sent[r], calls[r], unhandled[r])

\* the handler throws outside any try
Reject(r, cx) == Commit(r, cx, "ended", sent[r], calls[r], TRUE)

Mark(cx, tags) == [cx EXCEPT !.ran = @ \cup tags]

\* error("not_found", {message, action}, 404, res) of the action handlers
\* (NotFoundNoAction: the envelope without its action field)
NotFoundNoAction(act) == Envelope("not_found", 404, "-", "-")
NotFound(act) == Envelope("not_found", 404, act, "-")

\* the three action handlers: client[action](...req.body) and its catch
ActionHandler(r, cx) ==
  LET lvl == Routes[cx.at].level
      act == path[r][lvl + 1].n
      c1  == Mark(cx, {"action"})
  IN IF body[r] = "undefined"
     THEN \* spreading undefined throws before any call
          Reply(r, Mark(c1, {"spreadThrew"}), NotFound(act))
     ELSE \/ \* target[action] is not a function
             /\ ~DriverHas(lvl, act)
             /\ Reply(r, Mark(c1, {"lookupMissing"}), NotFound(act))
          \/ \* the action is called and the handler awaits it
             Commit(r, Mark(c1, {"invoke"}), "invoking", sent[r],
                    Append(calls[r], [target |-> Target(lvl, cx),
                                      action |-> act, args |-> body[r]]),
                    unhandled[r])

\* app.post("*"): the generic fallback
FallbackHandler(r, cx) ==
  IF HeadersSent(sent[r]) THEN Return(r, Mark(cx, {"fallback"}))
  ELSE Reply(r, Mark(cx, {"fallback"}), Envelope("not_found", 404, "-", "-"))

\* what runs after next() of the connect middleware
Dispatch(r, cx) ==
  CASE cx.stop = "action" -> ActionHandler(r, cx)
    [] cx.stop = "fallback" -> FallbackHandler(r, cx)
    [] cx.stop = "threw" -> Reject(r, cx)
    [] OTHER -> Return(r, cx)

ConnectRoute == CHOOSE i \in 1..Len(Routes) : Routes[i].handler = "connect"

\* --------------------------------------------------------------- actions
Init ==
  /\ boot = "serving"
  /\ retry = TRUE
  /\ bootlog = {"parsed", "connected"}
  /\ live = {1}
  /\ pc = [r \in Reqs |-> "idle"]
  /\ method = [r \in Reqs |-> "POST"]
  /\ path = [r \in Reqs |-> <<>>]
  /\ slash = [r \in Reqs |-> TRUE]
  /\ body = [r \in Reqs |-> "undefined"]
  /\ timer = [r \in Reqs |-> "unarmed"]
  /\ sent = [r \in Reqs |-> <<>>]
  /\ client = [r \in Reqs |-> NoHandle]
  /\ database = [r \in Reqs |-> NoHandle]
  /\ collection = [r \in Reqs |-> NoHandle]
  /\ calls = [r \in Reqs |-> <<>>]
  /\ tried = [r \in Reqs |-> <<>>]
  /\ ran = [r \in Reqs |-> {}]
  /\ unhandled = [r \in Reqs |-> FALSE]
  /\ authorization = [r \in Reqs |-> <<>>]
  /\ auth = [r \in Reqs |-> NoAuth]
  /\ opened = 0
  /\ closed = {}

\* express.json() cannot decode the body: next(err), which Express' default
\* error handler answers; no route runs
ParseFailure(r) ==
  /\ boot = "serving"
  /\ r \in live /\ pc[r] = "idle"
  /\ \E m \in Methods, p \in Paths, s \in BOOLEAN :
       /\ (p = <<>> => s)
       /\ method' = [method EXCEPT ![r] = m]
       /\ path' = [path EXCEPT ![r] = p]
       /\ slash' = [slash EXCEPT ![r] = s]
       /\ body' = [body EXCEPT ![r] = "undefined"]
       /\ Commit(r, Mark(Context(r), {"parseFailed"}), "ended",
                 <<ParseErrorResponse>>, calls[r], unhandled[r])
  /\ UNCHANGED <<boot, retry, bootlog, live, authorization, auth, opened, closed>>

\* a request is received and runs to its first await: the timer middleware,
\* then for POST the body check and the call of MongoClient.connect, for
\* any other method the final app.all
Receive(r, m, p, s, rb, h) ==
  LET cx == Run(1, m, p, s, Context(r)) IN
  /\ r \in live /\ pc[r] = "idle"
  /\ (p = <<>> => s)
  /\ method' = [method EXCEPT ![r] = m]
  /\ path' = [path EXCEPT ![r] = p]
  /\ slash' = [slash EXCEPT ![r] = s]
  /\ body' = [body EXCEPT ![r] = rb]
  /\ CASE cx.stop = "connect" ->
            IF BodyRejected(rb)
            THEN /\ Reply(r, Mark(cx, {"validate"}),
                          Envelope("invalid_body", 400, "-", "-"))
                 /\ UNCHANGED <<authorization, auth>>
            ELSE /\ authorization' = [authorization EXCEPT ![r] = h]
                 /\ auth' = [auth EXCEPT ![r] = ExtractAuth(h)]
                 /\ Commit(r, Mark(cx, {"validate", "connect"}),
                           "connecting", sent[r], calls[r], unhandled[r])
       [] cx.stop = "notAllowed" ->
            /\ UNCHANGED <<authorization, auth>>
            /\ IF HeadersSent(sent[r])
               THEN Return(r, Mark(cx, {"notAllowed"}))
               ELSE Reply(r, Mark(cx, {"notAllowed"}),
                          Envelope("method_not_allowed", 405, "-",
                                   ToLowerCase(m)))
       [] OTHER -> Return(r, cx) /\ UNCHANGED <<authorization, auth>>
  /\ UNCHANGED <<boot, retry, bootlog, live, opened, closed>>

Arrive(r) ==
  /\ boot = "serving"
  /\ r \in live /\ pc[r] = "idle"
  /\ \E m \in Methods, p \in Paths \cup {ClosePath}, s \in BOOLEAN,
        b \in BodyKinds, h \in Headers :
       \E rb \in Decoded(b) : Receive(r, m, p, s, rb, h)

\* MongoClient.connect resolves: res.locals.client is set, next() runs the
\* routes after the connect middleware up to the next await or the end
ConnectOk(r) ==
  /\ pc[r] = "connecting"
  /\ opened' = opened + 1
  /\ LET c0 == [Mark(Context(r), {"connected"}) EXCEPT
                  !.client = NewClient(opened + 1)]
         cx == Run(ConnectRoute + 1, method[r], path[r], slash[r], c0)
     IN Dispatch(r, cx)
  /\ UNCHANGED <<boot, retry, bootlog, live, method, path, slash, body, authorization, auth, closed>>

\* MongoClient.connect rejects: the catch normalizes the message and
\* answers connection_failed
ConnectFail(r) ==
  /\ pc[r] = "connecting"
  /\ \E msg \in ConnectErrors :
       LET cx == Mark(Context(r), {"connectFailed"}) IN
       IF NormalizeThrows(msg) THEN Reject(r, Mark(cx, {"normalizeThrew"}))
       ELSE Reply(r, cx, Envelope("connection_failed", 400, "-", "-"))
  /\ UNCHANGED <<boot, retry, bootlog, live, method, path, slash, body, authorization, auth, opened, closed>>

Action(r) == path[r][Len(path[r])].n

\* the awaited driver action settles
InvokeDone(r) ==
  /\ pc[r] = "invoking"
  /\ \/ \* it rejects: the catch answers not_found
        Reply(r, Mark(Context(r), {"rejected"}), NotFound(Action(r)))
     \/ \E k \in ResultsOf(calls[r][Len(calls[r])]) :
          LET cx == Mark(Context(r), {"resolved", k}) IN
          IF ParseThrows(k)
          THEN Reply(r, Mark(cx, {"parseThrew"}), NotFound(Action(r)))
          ELSE IF IsCursor(k)
          THEN Commit(r, Mark(cx, {"toArray"}), "materializing", sent[r],
                      calls[r], unhandled[r])
          ELSE IF WriteThrows(sent[r])
          THEN \* res.json throws, the catch's error() throws again
               Reject(r, cx)
          ELSE Reply(r, cx, ResultBody(Cloned(k)))
  /\ closed' =
       IF "resolved" \in ran'[r] /\ Releases(calls[r][Len(calls[r])])
       THEN closed \cup {calls[r][Len(calls[r])].target.conn}
       ELSE closed
  /\ UNCHANGED <<boot, retry, bootlog, live, method, path, slash, body, authorization, auth, opened>>

\* the awaited cursor.toArray() settles
ToArrayDone(r) ==
  /\ pc[r] = "materializing"
  /\ \/ Reply(r, Mark(Context(r), {"toArrayFailed"}), NotFound(Action(r)))
     \/ IF WriteThrows(sent[r])
        THEN Reject(r, Mark(Context(r), {"materialized"}))
        ELSE Reply(r, Mark(Context(r), {"materialized"}),
                   ResultBody("array"))
  /\ UNCHANGED <<boot, retry, bootlog, live, method, path, slash, body, authorization, auth, opened, closed>>

\* (TimeoutNoWrite: a callback that fires without answering)
TimeoutNoWrite(r) ==
  /\ timer[r] = "armed"
  /\ Commit(r, [Context(r) EXCEPT !.timer = "fired"], pc[r], sent[r],
            calls[r], unhandled[r])
  /\ UNCHANGED <<boot, retry, bootlog, live, method, path, slash, body, authorization, auth, opened, closed>>
\* the setTimeout callback, 10 s after the request entered routing
TimeoutCallback(r) ==
  /\ timer[r] = "armed"
  /\ LET cx == [Context(r) EXCEPT !.timer = "fired"] IN
     IF HeadersSent(sent[r])
     THEN Commit(r, cx, pc[r], sent[r], calls[r], unhandled[r])
     ELSE Commit(r, cx, pc[r],
                 Write(sent[r], Envelope("timeout", 500, "-", "-")),
                 calls[r], unhandled[r])
  /\ UNCHANGED <<boot, retry, bootlog, live, method, path, slash, body, authorization, auth, opened, closed>>

Next ==
  \E r \in Reqs :
    \/ ParseFailure(r)
    \/ Arrive(r)
    \/ ConnectOk(r)
    \/ ConnectFail(r)
    \/ InvokeDone(r)
    \/ ToArrayDone(r)
    \/ TimeoutCallback(r)

Spec == Init /\ [][Next]_vars



\* ------------------------------------------------- concurrent requests
\* the requests of the concurrent specification: POST requests with an
\* array body, one per dispatch level, each with its own argument list
ConcurrentInputs ==
  { [p |-> ClosePath, rb |-> "array"],
    [p |-> <<[m |-> FALSE, n |-> "users"], [m |-> TRUE, n |-> "users"]>>,
     rb |-> "arrayOfOne"],
    [p |-> <<[m |-> FALSE, n |-> "users"], [m |-> FALSE, n |-> "users"],
             [m |-> TRUE, n |-> "users"]>>,
     rb |-> "array"] }

InitConcurrent ==
  /\ boot = "serving"
  /\ retry = TRUE
  /\ bootlog = {"parsed", "connected"}
  /\ live = Reqs
  /\ pc = [r \in Reqs |-> "idle"]
  /\ method = [r \in Reqs |-> "POST"]
  /\ path = [r \in Reqs |-> <<>>]
  /\ slash = [r \in Reqs |-> TRUE]
  /\ body = [r \in Reqs |-> "undefined"]
  /\ timer = [r \in Reqs |-> "unarmed"]
  /\ sent = [r \in Reqs |-> <<>>]
  /\ client = [r \in Reqs |-> NoHandle]
  /\ database = [r \in Reqs |-> NoHandle]
  /\ collection = [r \in Reqs |-> NoHandle]
  /\ calls = [r \in Reqs |-> <<>>]
  /\ tried = [r \in Reqs |-> <<>>]
  /\ ran = [r \in Reqs |-> {}]
  /\ unhandled = [r \in Reqs |-> FALSE]
  /\ authorization = [r \in Reqs |-> <<>>]
  /\ auth = [r \in Reqs |-> NoAuth]
  /\ opened = 0
  /\ closed = {}

ArriveConcurrent(r) ==
  /\ boot = "serving"
  /\ r \in live /\ pc[r] = "idle"
  /\ \E in \in ConcurrentInputs :
       Receive(r, "POST", in.p, TRUE, in.rb, <<>>)

NextConcurrent ==
  \E r \in Reqs :
    \/ ArriveConcurrent(r)
    \/ ConnectOk(r)
    \/ ConnectFail(r)
    \/ InvokeDone(r)
    \/ ToArrayDone(r)

SpecConcurrent == InitConcurrent /\ [][NextConcurrent]_vars


\* -------------------------------------------------------------- startup
requestVars ==
  <<live, pc, method, path, slash, body, timer, sent, client, database,
    collection, calls, tried, ran, unhandled, authorization, auth, opened,
    closed>>

\* what fs.readFile(CONFIG_PATH) can yield: a file holding JSON, a file
\* JSON.parse rejects, no such file, a file that cannot be read
ReadOutcomes == {"valid", "malformed", "enoent", "unreadable"}

\* start(): the file was read and the first .then() or the .catch() runs
\* up to its first await.  A parse error is logged and runtime(undefined)
\* returns at once; a missing file makes the catch write the default
\* configuration; any other read error is only logged.
ReadConfig ==
  /\ boot = "reading"
  /\ \E o \in ReadOutcomes :
       CASE o = "valid" ->
              boot' = "connecting" /\ bootlog' = bootlog \cup {"parsed"}
         [] o = "malformed" ->
              boot' = "stopped" /\ bootlog' = bootlog \cup {"parseFailed"}
         [] o = "enoent" ->
              boot' = "writing" /\ bootlog' = bootlog \cup {"enoent"}
         [] o = "unreadable" ->
              boot' = "stopped" /\ bootlog' = bootlog \cup {"readFailed"}
  /\ UNCHANGED <<retry, requestVars>>

\* the awaited initial client.connect() settles: on success the
\* configuration is returned and runtime(config) registers the routes and
\* calls app.listen; on failure the error is logged and runtime(undefined)
\* returns at once
InitialConnectIgnored ==
  /\ boot = "connecting"
  /\ boot' = "serving"
  /\ \E ok \in BOOLEAN :
       bootlog' = bootlog \cup (IF ok THEN {"connected"} ELSE {"connectFailed"})
  /\ UNCHANGED <<retry, requestVars>>
InitialConnect ==
  /\ boot = "connecting"
  /\ \/ boot' = "serving" /\ bootlog' = bootlog \cup {"connected"}
     \/ boot' = "stopped" /\ bootlog' = bootlog \cup {"connectFailed"}
  /\ UNCHANGED <<retry, requestVars>>

\* the awaited fs.writeFile of the default configuration settles: then
\* start(false) runs if this was the first attempt, otherwise startup gives
\* up; a failed write rejects out of the catch
WriteDefault ==
  /\ boot = "writing"
  /\ \/ /\ bootlog' = bootlog \cup {"wroteDefault"}
        /\ IF retry THEN boot' = "reading" /\ retry' = FALSE
           ELSE boot' = "stopped" /\ retry' = retry
     \/ /\ bootlog' = bootlog \cup {"writeFailed"}
        /\ boot' = "stopped" /\ retry' = retry
  /\ UNCHANGED requestVars

\* the process is started: start() with retry = true
InitStartup ==
  /\ boot = "reading"
  /\ retry = TRUE
  /\ bootlog = {}
  /\ live = {1}
  /\ pc = [r \in Reqs |-> "idle"]
  /\ method = [r \in Reqs |-> "POST"]
  /\ path = [r \in Reqs |-> <<>>]
  /\ slash = [r \in Reqs |-> TRUE]
  /\ body = [r \in Reqs |-> "undefined"]
  /\ timer = [r \in Reqs |-> "unarmed"]
  /\ sent = [r \in Reqs |-> <<>>]
  /\ client = [r \in Reqs |-> NoHandle]
  /\ database = [r \in Reqs |-> NoHandle]
  /\ collection = [r \in Reqs |-> NoHandle]
  /\ calls = [r \in Reqs |-> <<>>]
  /\ tried = [r \in Reqs |-> <<>>]
  /\ ran = [r \in Reqs |-> {}]
  /\ unhandled = [r \in Reqs |-> FALSE]
  /\ authorization = [r \in Reqs |-> <<>>]
  /\ auth = [r \in Reqs |-> NoAuth]
  /\ opened = 0
  /\ closed = {}

NextStartup ==
  \/ ReadConfig
  \/ InitialConnect
  \/ WriteDefault
  \/ Next

SpecStartup == InitStartup /\ [][NextStartup]_vars

\* ---------------------------------------------------------------- claims
Timeout == Envelope("timeout", 500, "-", "-")
InvalidBody == Envelope("invalid_body", 400, "-", "-")
ConnectionFailed == Envelope("connection_failed", 400, "-", "-")

\* a path of one of the shapes /_<action>/, /<db>/_<action>/,
\* /<db>/<collection>/_<action>/ with ordinary db and collection names
PlainActionPath(p) ==
  /\ Len(p) \in 1..3
  /\ p[Len(p)].m
  /\ \A i \in 1..(Len(p) - 1) : ~p[i].m

\* the number of non-action segments before the first action segment
SegmentsBeforeAction(p) ==
  CHOOSE k \in 0..Len(p) :
    /\ \A i \in 1..k : ~p[i].m
    /\ k < Len(p) => p[k + 1].m

\* the target the path names, on the request's own connection
NamedTarget(r) ==
  LET k == SegmentsBeforeAction(path[r]) IN
  CASE k = 0 -> Handle(0, client[r].conn, NoSeg, NoSeg)
    [] k = 1 -> Handle(1, client[r].conn, path[r][1], NoSeg)
    [] OTHER -> Handle(2, client[r].conn, path[r][1], path[r][2])

\* C1: for a POST request whose connection succeeded and whose path has one
\* of the three action shapes, at most one invocation is made, exactly one
\* while the handler awaits the action, and its target is the client, the
\* database named by the first segment, or the collection named by the
\* second segment in that database, by the number of non-action segments
\* before the action segment.
C1_TargetByDepth ==
  \A r \in Reqs :
    (PlainActionPath(path[r]) /\ "connected" \in ran[r]) =>
      /\ Len(calls[r]) <= 1
      /\ (pc[r] \in {"invoking", "materializing"} => Len(calls[r]) = 1)
      /\ \A i \in 1..Len(calls[r]) :
           /\ calls[r][i].target = NamedTarget(r)
           /\ calls[r][i].target.level = SegmentsBeforeAction(path[r])
           /\ calls[r][i].target.conn # 0

C1_Witness ==
  \E r \in Reqs :
    /\ PlainActionPath(path[r]) /\ Len(path[r]) = 3
    /\ Len(calls[r]) = 1
    /\ calls[r][1].target = Handle(2, 1, path[r][1], path[r][2])

\* C2: no step of a request produces a second response: a request never
\* has more than one response, and a response once sent is never changed.
C2_AtMostOneResponse ==
  [][\A r \in Reqs :
       /\ Len(sent'[r]) <= 1
       /\ (sent[r] # <<>> => sent'[r] = sent[r])]_vars

C2_Witness ==
  \E r \in Reqs :
    /\ sent[r] = <<Timeout>>
    /\ "rejected" \in ran[r]
    /\ pc[r] = "ended"

\* C3: when the timer callback runs and no response was sent, it sends the
\* 500 timeout envelope; from then on the request's response stays that
\* single envelope, whatever completes later.
C3_TimeoutOnce ==
  [][\A r \in Reqs :
       /\ (timer[r] = "armed" /\ timer'[r] = "fired" /\ sent[r] = <<>>)
            => sent'[r] = <<Timeout>>
       /\ sent[r] = <<Timeout>> => sent'[r] = <<Timeout>>]_vars

C3_Witness ==
  \E r \in Reqs :
    /\ sent[r] = <<Timeout>>
    /\ "connected" \in ran[r]
    /\ "materialized" \in ran[r]
    /\ pc[r] = "ended"

\* C4: a POST request whose decoded body is a non-array value is answered
\* 400 invalid_body, and MongoClient.connect is never called for it.
C4_InvalidBodyNoConnect ==
  \A r \in Reqs :
    (pc[r] # "idle" /\ method[r] = "POST" /\ body[r] = "object") =>
      /\ sent[r] = <<InvalidBody>>
      /\ "connect" \notin ran[r]
      /\ client[r] = NoHandle
      /\ pc[r] = "ended"

C4_Witness ==
  \E r \in Reqs :
    /\ method[r] = "POST" /\ body[r] = "object"
    /\ sent[r] = <<InvalidBody>>
    /\ timer[r] = "fired"

\* C5 (as claimed): a POST request whose connection attempt failed, here
\* before the deadline elapsed, is answered 400 connection_failed whatever
\* the driver's message, and neither resolution nor invocation runs for it.
C5_ConnectionFailedAlways ==
  \A r \in Reqs :
    ("connectFailed" \in ran[r] /\ timer[r] = "armed") =>
      /\ sent[r] = <<ConnectionFailed>>
      /\ ran[r] \cap {"resolveDb", "resolveColl", "action", "invoke"} = {}

\* the action handler found no such action, or the action it called failed
ActionFailed(rn) == rn \cap {"lookupMissing", "rejected"} # {}

\* C6 (as claimed): whenever the action does not exist on the target or
\* its invocation failed, the response is 404 not_found carrying the
\* action name.
C6_NotFoundAlways ==
  \A r \in Reqs :
    ActionFailed(ran[r]) =>
      sent[r] = <<Envelope("not_found", 404, path[r][Len(path[r])].n, "-")>>

\* C6 (amended): at the step where the action handler finds the action
\* missing or its invocation fails, at every level, the response becomes
\* 404 not_found carrying the action name if no response was sent before,
\* and is left as it is otherwise (the 500 timeout sent earlier stays).
C6_NotFoundUnlessSent ==
  [][\A r \in Reqs :
       (~ActionFailed(ran[r]) /\ ActionFailed(ran'[r])) =>
         sent'[r] =
           IF sent[r] = <<>>
           THEN <<Envelope("not_found", 404, path[r][Len(path[r])].n, "-")>>
           ELSE sent[r]]_vars

C6_Witness ==
  \E r \in Reqs :
    /\ "lookupMissing" \in ran[r]
    /\ Len(path[r]) = 2
    /\ sent[r] = <<Envelope("not_found", 404, "users", "-")>>

\* C7 (as claimed): an invocation the driver completed without failure is
\* never reported as an error and the normalizer does not throw.
C7_SuccessNeverError ==
  \A r \in Reqs :
    ("resolved" \in ran[r] /\ "toArrayFailed" \notin ran[r]) =>
      /\ "parseThrew" \notin ran[r]
      /\ \A i \in 1..Len(sent[r]) : sent[r][i].reason # "not_found"

\* C8 (as claimed): every result offering materialization is materialized
\* before a result body is sent; no body is a copy of a cursor handle.
C8_CursorsMaterialized ==
  \A r \in Reqs :
    \A i \in 1..Len(sent[r]) :
      sent[r][i].kind = "result" =>
        /\ sent[r][i].payload # "cursorHandle"
        /\ (\E k \in ResultKinds : OffersToArray(k) /\ k \in ran[r])
              => "materialized" \in ran[r]

PostStages ==
  {"validate", "connect", "connected", "connectFailed", "resolveDb",
   "resolveColl", "action", "invoke", "fallback"}

\* C9 (as claimed): a request whose method is not POST is answered 405
\* method_not_allowed with the lower-cased method, and no POST stage runs.
C9_NonPostIs405 ==
  \A r \in Reqs :
    (pc[r] # "idle" /\ method[r] # "POST") =>
      /\ sent[r] = <<Envelope("method_not_allowed", 405, "-",
                              ToLowerCase(method[r]))>>
      /\ ran[r] \cap PostStages = {}

\* no action route matches the path
NoActionRoute(p) == \A k \in 0..2 : ~(Len(p) = k + 1 /\ p[k + 1].m)

\* route numbers of the action routes and of the fallback, as tried
ActionAndFallbackRoutes(seq) ==
  SelectSeq(seq, LAMBDA i : Routes[i].handler \in {"action", "fallback"})

\* C10 (as claimed): a POST request with a valid body and a successful
\* connection, here one made before the deadline elapsed, whose path has no
\* action segment in an action position is answered 404 not_found, no
\* action is invoked, and the fallback is reached after the three action
\* routes were tried in order.
C10_NoActionIs404 ==
  \A r \in Reqs :
    ("connected" \in ran[r] /\ NoActionRoute(path[r])
       /\ timer[r] = "armed") =>
      /\ sent[r] = <<Envelope("not_found", 404, "-", "-")>>
      /\ calls[r] = <<>>
      /\ "fallback" \in ran[r]
      /\ LET af == ActionAndFallbackRoutes(tried[r]) IN
           /\ Len(af) = 4
           /\ \A i \in 1..3 : Routes[af[i]].handler = "action"
                                /\ Routes[af[i]].level = i - 1
           /\ Routes[af[4]].handler = "fallback"


\* a driver connection or action of the request settled (completed or
\* failed) and its handler went on to answer
LateSettled(rn) ==
  /\ rn \cap {"resolved", "rejected", "toArrayFailed", "connectFailed"} # {}
  /\ "normalizeThrew" \notin rn

\* C11 (as claimed): when the timeout response was sent first, a driver
\* connection or action settling afterwards is a no-op: it raises no
\* unhandled error.
C11_LoserIsNoOp ==
  \A r \in Reqs :
    (sent[r] = <<Timeout>> /\ pc[r] = "ended" /\ LateSettled(ran[r])) =>
      ~unhandled[r]

\* C12 (as claimed): once a request was answered by its handlers, its
\* timer is cancelled: it is neither pending nor has its callback run.
C12_TimerCancelled ==
  \A r \in Reqs :
    (sent[r] # <<>> /\ sent[r] # <<Timeout>>) =>
      timer[r] \notin {"armed", "fired"}

\* C13 (as claimed): a segment beginning with the marker is never resolved
\* as a database name or as a collection name.
C13_MarkerNeverResolved ==
  \A r \in Reqs :
    /\ ~database[r].db.m
    /\ ~collection[r].db.m
    /\ ~collection[r].coll.m
    /\ \A i \in 1..Len(calls[r]) :
         ~calls[r][i].target.db.m /\ ~calls[r][i].target.coll.m

ErrorReasons ==
  {"invalid_body", "connection_failed", "not_found", "timeout",
   "method_not_allowed"}

StatusOf(reason) ==
  CASE reason \in {"invalid_body", "connection_failed"} -> 400
    [] reason = "not_found" -> 404
    [] reason = "timeout" -> 500
    [] reason = "method_not_allowed" -> 405
    [] OTHER -> 0

\* C15 (as claimed): every response that reports a failure is an error
\* envelope whose reason is one of the five, whose status field equals the
\* HTTP status sent, and whose status follows the fixed mapping.
C15_FailuresAreEnvelopes ==
  \A r \in Reqs :
    \A i \in 1..Len(sent[r]) :
      sent[r][i].kind # "result" =>
        /\ sent[r][i].kind = "envelope"
        /\ sent[r][i].reason \in ErrorReasons
        /\ sent[r][i].envStatus = sent[r][i].status
        /\ sent[r][i].status = StatusOf(sent[r][i].reason)

\* C18 (as claimed): once a response was sent for a request, no step of
\* the request resolves a database or collection or invokes an action.
C18_NoOperationAfterResponse ==
  [][\A r \in Reqs :
       sent[r] # <<>> =>
         /\ calls'[r] = calls[r]
         /\ database'[r] = database[r]
         /\ collection'[r] = collection[r]]_vars


\* C14 (as claimed): extracting from the header built for a user and a
\* password, also one holding further ":" characters, yields exactly that
\* user and exactly that password.
C14_FirstColonOnly ==
  \A r \in Reqs :
    \A u \in Users, pw \in Passwords :
      authorization[r] = HeaderOf(u, pw) => auth[r] = Credential(u, pw)


\* C16: with several requests in flight, the connections of two requests
\* differ, the database and collection references of a request are the
\* ones derived from its own connection and its own path segments, and
\* every action is invoked on the target its own path names, with its own
\* argument list.
C16_OwnContext ==
  \A r \in Reqs :
    /\ \A q \in Reqs \ {r} :
         (client[r] # NoHandle /\ client[q] # NoHandle) =>
           client[r].conn # client[q].conn
    /\ client[r] # NoHandle => client[r].conn \in 1..opened
    /\ database[r] # NoHandle =>
         database[r] = Handle(1, client[r].conn, path[r][1], NoSeg)
    /\ collection[r] # NoHandle =>
         collection[r] = Handle(2, client[r].conn, path[r][1], path[r][2])
    /\ \A i \in 1..Len(calls[r]) :
         /\ calls[r][i].target = NamedTarget(r)
         /\ calls[r][i].action = path[r][Len(path[r])].n
         /\ calls[r][i].args = body[r]

C16_Witness ==
  \E r, q \in Reqs :
    /\ r # q
    /\ pc[r] = "invoking" /\ pc[q] = "materializing"
    /\ calls[r][1].target.level = 1 /\ calls[q][1].target.level = 2
    /\ calls[r][1].args # calls[q][1].args
    /\ client[r].conn = 2 /\ client[q].conn = 1

Listening == boot = "serving"

\* C19 (as claimed): the server starts listening in every startup run in
\* which the configuration file was read and parsed, never when parsing
\* failed, and a run stops without serving only on a parse error.
C19_OnlyParseErrorAborts ==
  /\ ("parsed" \in bootlog /\ boot # "connecting") => Listening
  /\ "parseFailed" \in bootlog => ~Listening

\* C19 (amended): the server starts listening in every startup run in
\* which the configuration file was read and parsed and the initial
\* connection succeeded, and in no other run: not when parsing failed and
\* not when the initial connection failed.
C19_ParsedAndConnected ==
  /\ Listening <=> {"parsed", "connected"} \subseteq bootlog
  /\ "parseFailed" \in bootlog => (~Listening /\ boot = "stopped")
  /\ "connectFailed" \in bootlog => (~Listening /\ boot = "stopped")
  /\ ("parsed" \in bootlog /\ boot = "stopped") => "connectFailed" \in bootlog

C19_Witness ==
  /\ boot = "stopped"
  /\ ~retry
  /\ {"enoent", "wroteDefault", "parsed", "connectFailed"} \subseteq bootlog

====
